---------------------------- MODULE Spec2Model ----------------------------
(***************************************************************************)
(* A model of crates/wasmparser/src/readers/core/operators.rs: the        *)
(* OperatorsReader facade, its two iterators, the default visitor          *)
(* dispatch, BrTable equality and the TryTable / Catch / ResumeTable /     *)
(* Handle sub-decoders.                                                    *)
(*                                                                         *)
(* The byte cursor (crate::BinaryReader), the opcode decoder               *)
(* (BinaryReader::visit_operator / read_operator), the for_each_operator!  *)
(* table and crate::limits live in other files of the crate; they are      *)
(* modelled here from the interface the specification requires of them     *)
(* (spec.md sections 4.2, 4.4, 4.5, 6 and 7).                              *)
(***************************************************************************)
EXTENDS Integers, Sequences, FiniteSets, TLC

VARIABLES
    reader,     \* the OperatorsReader's BinaryReader (OperatorsReader.reader)
    iter,       \* the iterator owning the reader: [kind, err]; kind "none" before into_iter
    ret,        \* what the last call returned
    items,      \* the Some(..) items an iterator has yielded so far, in order
    cursor,     \* a second cursor: get_binary_reader() / clone(), or NoReader
    lastOff,    \* the offset the previous successful read_with_offset returned, or -1
    visited,    \* visitor calls made by OperatorsReader::visit_operator on `cursor`
    dispatched, \* visitor calls made by read() + VisitOperator::visit_operator on `reader`
    tables      \* the BrTable values decoded so far (BrTable specification)

vars == <<reader, iter, ret, items, cursor, lastOff, visited, dispatched, tables>>

---------------------------------------------------------------------------
(* Bounds of the model.                                                    *)

\* Longest function body, in bytes.
MaxLen == 3

\* Longest input handed to a sub-table decoder, in bytes.
MaxTableLen == 4

\* crate::limits::MAX_WASM_CATCHES and MAX_WASM_HANDLERS (operators.rs:16
\* imports them; both are 10_000 in crate::limits).  The model scales them
\* down so that a one-byte count can exceed them.
MAX_WASM_CATCHES == 2

MAX_WASM_HANDLERS == 2

\* crate::limits::MAX_WASM_BR_TABLE_SIZE, scaled the same way.
MAX_WASM_BR_TABLE_SIZE == 2

\* Absolute offsets at which a body may start (BinaryReader::new(data, offset)):
\* 0 and the 23 of the doc test at operators.rs:336.
Bases == {0, 23}

RECURSIVE SeqsUpTo(_, _)
SeqsUpTo(S, n) ==
    IF n = 0 THEN {<<>>}
    ELSE LET shorter == SeqsUpTo(S, n - 1)
         IN  shorter \cup {Append(s, b) : s \in {t \in shorter : Len(t) = n - 1}, b \in S}

---------------------------------------------------------------------------
(* Values.                                                                 *)

NoErr == [kind |-> "none", offset |-> 0, byte |-> 0, desc |-> ""]

NoVal == [op |-> "none"]

NoReader == [buffer |-> <<>>, position |-> 0, original_offset |-> 0, live |-> FALSE]

\* BinaryReader::new(data, original_offset)
BinaryReader(data, off) ==
    [buffer |-> data, position |-> 0, original_offset |-> off, live |-> TRUE]

\* Result<T>: Ok(v) / Err(e), together with the cursor as the call left it.
Ok(v, r) == [ok |-> TRUE, val |-> v, err |-> NoErr, rd |-> r]

Err(e, r) == [ok |-> FALSE, val |-> NoVal, err |-> e, rd |-> r]

\* BinaryReaderError::new(message, offset); the message is kept as its kind,
\* the byte and the context it names.
Error(kind, off, byte, desc) == [kind |-> kind, offset |-> off, byte |-> byte, desc |-> desc]

---------------------------------------------------------------------------
(* The byte cursor (crate::BinaryReader), from spec.md section 6.          *)

\* The `?` operator: go on with an Ok result, hand an Err back as it is.
Try(res, Then(_)) == IF res.ok THEN Then(res) ELSE res

eof(r) == r.position >= Len(r.buffer)

original_position(r) == r.original_offset + r.position

remaining_buffer(r) == SubSeq(r.buffer, r.position + 1, Len(r.buffer))

Advance(r) == [r EXCEPT !.position = @ + 1]

\* read one byte, or fail with an unexpected-end error at the current offset
read_u8(r) ==
    IF eof(r) THEN Err(Error("eof", original_position(r), 0, ""), r)
    ELSE Ok(r.buffer[r.position + 1], Advance(r))

\* The continuation bytes of a variable-length u32: 7 bits a byte, at most
\* five bytes, the fifth carrying 4 bits.
RECURSIVE read_var_u32_big(_, _, _)
read_var_u32_big(r, result, shift) ==
    Try(read_u8(r), LAMBDA b :
        IF shift >= 25 /\ (b.val \div (2 ^ (32 - shift))) # 0
        THEN Err(Error(IF b.val >= 128 THEN "leb_too_long" ELSE "leb_too_large",
                       original_position(b.rd) - 1, 0, "var_u32"), b.rd)
        ELSE IF b.val < 128 THEN Ok(result + b.val * (2 ^ shift), b.rd)
        ELSE read_var_u32_big(b.rd, result + (b.val % 128) * (2 ^ shift), shift + 7))

read_var_u32(r) ==
    Try(read_u8(r), LAMBDA b :
        IF b.val < 128 THEN Ok(b.val, b.rd)
        ELSE read_var_u32_big(b.rd, b.val % 128, 7))

\* The continuation bytes of a variable-length s33; the value is non-negative
\* iff the sign bit (bit 6 of the last byte, bit 4 of a fifth byte) is clear.
RECURSIVE read_var_s33_big(_, _, _)
read_var_s33_big(r, result, shift) ==
    Try(read_u8(r), LAMBDA b :
        IF shift >= 25
        THEN IF b.val >= 128 \/ ((b.val \div 32) % 4) # 3 * ((b.val \div 16) % 2)
             THEN Err(Error("leb_too_long", original_position(b.rd) - 1, 0, "var_s33"), b.rd)
             ELSE Ok([neg |-> (b.val \div 16) % 2 = 1,
                      n |-> result + (b.val % 128) * (2 ^ shift)], b.rd)
        ELSE IF b.val < 128
             THEN Ok([neg |-> b.val \div 64 = 1, n |-> result + b.val * (2 ^ shift)], b.rd)
        ELSE read_var_s33_big(b.rd, result + (b.val % 128) * (2 ^ shift), shift + 7))

read_var_s33(r) ==
    Try(read_u8(r), LAMBDA b :
        IF b.val < 128 THEN Ok([neg |-> b.val \div 64 = 1, n |-> b.val], b.rd)
        ELSE read_var_s33_big(b.rd, b.val % 128, 7))

\* The value-type bytes a block type may start with.
ValTypeBytes == {127, 126, 125, 124, 123, 112, 111}

\* read a block-type descriptor: 0x40, a value type, or a function type index
read_block_type(r) ==
    IF eof(r) THEN Err(Error("eof", original_position(r), 0, ""), r)
    ELSE IF r.buffer[r.position + 1] = 64
         THEN Ok([blockty |-> "Empty", idx |-> 0], Advance(r))
    ELSE IF r.buffer[r.position + 1] \in ValTypeBytes
         THEN Ok([blockty |-> "Type", idx |-> r.buffer[r.position + 1]], Advance(r))
    ELSE Try(read_var_s33(r), LAMBDA s :
             IF s.val.neg
             THEN Err(Error("invalid_function_type", original_position(r), 0, ""), s.rd)
             ELSE Ok([blockty |-> "FuncType", idx |-> s.val.n], s.rd))

\* BinaryReader::invalid_leading_byte(byte, desc): the error names the byte,
\* the context and the offset of the byte just read.
invalid_leading_byte(r, x, desc) ==
    Err(Error("invalid_leading_byte", original_position(r) - 1, x, desc), r)

\* BinaryReader::read_size(limit, desc): a count, checked against its maximum
\* before anything is sized or decoded by it; the error cites the count's offset.
read_size(r, limit, desc) ==
    Try(read_var_u32(r), LAMBDA size :
        IF size.val > limit
        THEN Err(Error("size_limit", original_position(r), 0, desc), size.rd)
        ELSE size)

---------------------------------------------------------------------------
(* Structured sub-tables: operators.rs lines 425-530.                      *)

\* Catch::from_reader without the 0x03 arm.
catch_from_reader_no_all_ref(reader_) ==
    Try(read_u8(reader_), LAMBDA x :
        CASE x.val \in {0, 1} ->
               Try(read_var_u32(x.rd), LAMBDA tag :
               Try(read_var_u32(tag.rd), LAMBDA label :
                   Ok([catch |-> IF x.val = 0 THEN "One" ELSE "OneRef",
                       tag |-> tag.val, label |-> label.val], label.rd)))
          [] x.val = 2 ->
               Try(read_var_u32(x.rd), LAMBDA label :
                   Ok([catch |-> "All", label |-> label.val], label.rd))
          [] OTHER -> invalid_leading_byte(x.rd, x.val, "catch"))

\* impl FromReader for Catch
Catch_from_reader(reader_) ==
    Try(read_u8(reader_), LAMBDA x :
        CASE x.val = 0 ->
               Try(read_var_u32(x.rd), LAMBDA tag :
               Try(read_var_u32(tag.rd), LAMBDA label :
                   Ok([catch |-> "One", tag |-> tag.val, label |-> label.val], label.rd)))
          [] x.val = 1 ->
               Try(read_var_u32(x.rd), LAMBDA tag :
               Try(read_var_u32(tag.rd), LAMBDA label :
                   Ok([catch |-> "OneRef", tag |-> tag.val, label |-> label.val], label.rd)))
          [] x.val = 2 ->
               Try(read_var_u32(x.rd), LAMBDA label :
                   Ok([catch |-> "All", label |-> label.val], label.rd))
          [] x.val = 3 ->
               Try(read_var_u32(x.rd), LAMBDA label :
                   Ok([catch |-> "AllRef", label |-> label.val], label.rd))
          [] OTHER -> invalid_leading_byte(x.rd, x.val, "catch"))

\* impl FromReader for Handle
Handle_from_reader(reader_) ==
    Try(read_u8(reader_), LAMBDA x :
        CASE x.val = 0 ->
               Try(read_var_u32(x.rd), LAMBDA tag :
               Try(read_var_u32(tag.rd), LAMBDA label :
                   Ok([handle |-> "OnLabel", tag |-> tag.val, label |-> label.val], label.rd)))
          [] x.val = 1 ->
               Try(read_var_u32(x.rd), LAMBDA tag :
                   Ok([handle |-> "OnSwitch", tag |-> tag.val], tag.rd))
          [] OTHER -> invalid_leading_byte(x.rd, x.val, "on clause"))

\* BinaryReaderIter<Catch> collected into Result<Vec<_>>: `remaining` records
\* in order, stopping at the first that fails.
RECURSIVE collect_catches(_, _, _)
collect_catches(r, remaining, acc) ==
    IF remaining = 0 THEN Ok(acc, r)
    ELSE Try(Catch_from_reader(r), LAMBDA c :
             collect_catches(c.rd, remaining - 1, Append(acc, c.val)))

RECURSIVE collect_handlers(_, _, _)
collect_handlers(r, remaining, acc) ==
    IF remaining = 0 THEN Ok(acc, r)
    ELSE Try(Handle_from_reader(r), LAMBDA h :
             collect_handlers(h.rd, remaining - 1, Append(acc, h.val)))

\* BinaryReader::read_iter(limit, desc) collected: the count, checked, then
\* that many records.
read_iter_catches(r, limit, desc) ==
    Try(read_size(r, limit, desc), LAMBDA n : collect_catches(n.rd, n.val, <<>>))

read_iter_handlers(r, limit, desc) ==
    Try(read_size(r, limit, desc), LAMBDA n : collect_handlers(n.rd, n.val, <<>>))

\* TryTable::from_reader checking the count only after decoding the catches.
try_table_from_reader_check_late(reader_) ==
    Try(read_block_type(reader_), LAMBDA ty :
    Try(read_var_u32(ty.rd), LAMBDA n :
    Try(collect_catches(n.rd, n.val, <<>>), LAMBDA catches :
        IF n.val > MAX_WASM_CATCHES
        THEN Err(Error("size_limit", original_position(ty.rd), 0, "catches"), catches.rd)
        ELSE Ok([ty |-> ty.val, catches |-> catches.val], catches.rd))))

\* impl FromReader for TryTable
TryTable_from_reader(reader_) ==
    Try(read_block_type(reader_), LAMBDA ty :
    Try(read_iter_catches(ty.rd, MAX_WASM_CATCHES, "catches"), LAMBDA catches :
        Ok([ty |-> ty.val, catches |-> catches.val], catches.rd)))

\* impl FromReader for ResumeTable
ResumeTable_from_reader(reader_) ==
    Try(read_iter_handlers(reader_, MAX_WASM_HANDLERS, "resume table"), LAMBDA handlers :
        Ok([handlers |-> handlers.val], handlers.rd))

---------------------------------------------------------------------------
(* Branch tables: operators.rs lines 59-75, spec.md section 4.4.           *)

RECURSIVE skip_var_u32s(_, _)
skip_var_u32s(r, n) ==
    IF n = 0 THEN Ok(NoVal, r)
    ELSE Try(read_var_u32(r), LAMBDA v : skip_var_u32s(v.rd, n - 1))

\* BinaryReader::read_br_table: the count, a cursor over exactly the label
\* bytes (not decoded into labels), and the default label.
read_br_table(r) ==
    Try(read_size(r, MAX_WASM_BR_TABLE_SIZE, "br_table"), LAMBDA cnt :
    Try(skip_var_u32s(cnt.rd, cnt.val), LAMBDA sk :
    Try(read_var_u32(sk.rd), LAMBDA d :
        Ok([reader |-> [buffer |-> SubSeq(r.buffer, cnt.rd.position + 1, sk.rd.position),
                        position |-> 0,
                        original_offset |-> r.original_offset + cnt.rd.position,
                        live |-> TRUE],
            cnt |-> cnt.val, default |-> d.val], d.rd))))

\* BrTable equality comparing the retained cursors whole, offsets included.
br_table_eq_whole_cursor(self, other) ==
    /\ self.cnt = other.cnt
    /\ self.default = other.default
    /\ self.reader = other.reader

\* impl PartialEq for BrTable
BrTable_eq(self, other) ==
    /\ self.cnt = other.cnt
    /\ self.default = other.default
    /\ remaining_buffer(self.reader) = remaining_buffer(other.reader)

\* BrTable::targets() collected: the labels, decoded on demand from a clone
\* of the retained cursor.
RECURSIVE read_labels(_, _, _)
read_labels(r, n, acc) ==
    IF n = 0 THEN Ok(acc, r)
    ELSE Try(read_var_u32(r), LAMBDA v : read_labels(v.rd, n - 1, Append(acc, v.val)))

BrTable_targets(t) == read_labels(t.reader, t.cnt, <<>>)

---------------------------------------------------------------------------
(* The operator decoder (BinaryReader::visit_operator), for the opcodes    *)
(* the model's inputs use; spec.md section 4.2.                            *)

NoArgs == [nullary |-> TRUE]

\* The rows of for_each_operator! for those opcodes: <<$op, $visit>>.
OperatorTable ==
    { <<"Unreachable", "visit_unreachable">>, <<"Nop", "visit_nop">>,
      <<"Block", "visit_block">>, <<"Loop", "visit_loop">>,
      <<"Catch", "visit_catch">>, <<"End", "visit_end">>,
      <<"Br", "visit_br">>, <<"BrTable", "visit_br_table">>,
      <<"TryTable", "visit_try_table">>, <<"MemoryGrow", "visit_memory_grow">>,
      <<"I64DivU", "visit_i64_div_u">>, <<"Resume", "visit_resume">> }

VisitOf(op) == (CHOOSE row \in OperatorTable : row[1] = op)[2]

OpOf(visit) == (CHOOSE row \in OperatorTable : row[2] = visit)[1]

\* A call of one per-kind visitor method.
Call(visit, args) == [visit |-> visit, args |-> args]

\* One immediate decoded, then the visitor method called with it.
WithImmediate(res, visit, field) ==
    Try(res, LAMBDA imm : Ok(Call(visit, [f \in {field} |-> imm.val]), imm.rd))

\* The opcode `code`, read at offset `pos`, with the cursor `n` behind it.
visit_opcode(code, pos, n) ==
    CASE code = 0   -> Ok(Call("visit_unreachable", NoArgs), n)
      [] code = 1   -> Ok(Call("visit_nop", NoArgs), n)
      [] code = 2   -> WithImmediate(read_block_type(n), "visit_block", "blockty")
      [] code = 3   -> WithImmediate(read_block_type(n), "visit_loop", "blockty")
      [] code = 7   -> WithImmediate(read_var_u32(n), "visit_catch", "tag_index")
      [] code = 11  -> Ok(Call("visit_end", NoArgs), n)
      [] code = 12  -> WithImmediate(read_var_u32(n), "visit_br", "relative_depth")
      [] code = 14  -> WithImmediate(read_br_table(n), "visit_br_table", "targets")
      [] code = 31  -> WithImmediate(TryTable_from_reader(n), "visit_try_table", "try_table")
      [] code = 64  -> WithImmediate(read_var_u32(n), "visit_memory_grow", "mem")
      [] code = 128 -> Ok(Call("visit_i64_div_u", NoArgs), n)
      [] code = 227 ->
           Try(read_var_u32(n), LAMBDA k :
           Try(ResumeTable_from_reader(k.rd), LAMBDA t :
               Ok(Call("visit_resume", [cont_type_index |-> k.val, resume_table |-> t.val]),
                  t.rd)))
      [] OTHER      -> Err(Error("illegal_opcode", pos, code, "opcode"), n)

\* BinaryReader::visit_operator(visitor): the opcode byte, then the
\* immediates in the format's order, then exactly one visitor method.
BinaryReader_visit_operator(r) ==
    Try(read_u8(r), LAMBDA code : visit_opcode(code.val, original_position(r), code.rd))

\* OperatorFactory: the visitor whose visit_X(args) builds Operator::X { args }.
OperatorFactory(call) == [op |-> OpOf(call.visit), args |-> call.args]

\* BinaryReader::read_operator: visit_operator with the OperatorFactory.
read_operator(r) ==
    Try(BinaryReader_visit_operator(r), LAMBDA v : Ok(OperatorFactory(v.val), v.rd))

\* BinaryReader::is_end_then_eof: exactly one byte is left and it is `end`.
BinaryReader_is_end_then_eof(r) == remaining_buffer(r) = <<11>>

---------------------------------------------------------------------------
(* OperatorsReader: operators.rs lines 195-268.                            *)

\* OperatorsReader::new
OperatorsReader_new(r) == r

\* OperatorsReader::eof
OperatorsReader_eof(r) == eof(r)

\* OperatorsReader::original_position
OperatorsReader_original_position(r) == original_position(r)

\* ensure_end citing the position within the body instead of the absolute offset.
ensure_end_relative_offset(r) ==
    IF eof(r) THEN Ok(NoVal, r)
    ELSE Err(Error("trailing_data", r.position, 0, "operators"), r)

\* OperatorsReader::ensure_end (&self: the cursor is handed back as it was)
OperatorsReader_ensure_end(r) ==
    IF OperatorsReader_eof(r) THEN Ok(NoVal, r)
    ELSE Err(Error("trailing_data", original_position(r), 0, "operators"), r)

\* OperatorsReader::read
OperatorsReader_read(r) == read_operator(r)

\* OperatorsReader::read_with_offset: `pos` is taken before the read
WithOffset(pos, res) ==
    Try(res, LAMBDA op : Ok([operator |-> op.val, offset |-> pos], op.rd))

\* read_with_offset taking the position after the read.
read_with_offset_late(r) ==
    Try(read_operator(r), LAMBDA op :
        Ok([operator |-> op.val, offset |-> original_position(op.rd)], op.rd))

OperatorsReader_read_with_offset(r) == WithOffset(original_position(r), OperatorsReader_read(r))

\* OperatorsReader::visit_operator
OperatorsReader_visit_operator(r) == BinaryReader_visit_operator(r)

\* get_binary_reader handing out a cursor rewound to the start of the body.
get_binary_reader_rewound(r) == [r EXCEPT !.position = 0]

\* OperatorsReader::get_binary_reader: self.reader.clone()
OperatorsReader_get_binary_reader(r) == r

\* OperatorsReader::is_end_then_eof
OperatorsReader_is_end_then_eof(r) == BinaryReader_is_end_then_eof(r)

\* #[derive(Clone)] on OperatorsReader
OperatorsReader_clone(r) == r

---------------------------------------------------------------------------
(* The iterators: operators.rs lines 234-240 and 270-358.                  *)

\* An iterator is { reader, err }; the reader it owns stays in `reader`.
\* `start` records where that reader stood when the iterator was made.
NoIter == [kind |-> "none", err |-> FALSE, start |-> 0]

\* IntoIterator::into_iter
OperatorsReader_into_iter(self) == [kind |-> "ops", err |-> FALSE, start |-> self.position]

\* OperatorsReader::into_iter_with_offsets
OperatorsReader_into_iter_with_offsets(self) ==
    [kind |-> "offsets", err |-> FALSE, start |-> self.position]

\* Option<Result<_>>: None, or Some(result); with the iterator's flag as the
\* call left it (the result carries the reader).
None(err, r) == [some |-> FALSE, res |-> Ok(NoVal, r), err |-> err]

Some(result) == [some |-> TRUE, res |-> result, err |-> ~result.ok]

\* next() that never looks at the error flag.
next_ignoring_err(err, r) ==
    IF eof(r) THEN None(err, r) ELSE Some(read_operator(r))

\* next() that stops before a final `end`.
next_stopping_before_end(err, r) ==
    IF err \/ eof(r) \/ BinaryReader_is_end_then_eof(r) THEN None(err, r)
    ELSE Some(read_operator(r))

\* OperatorsIterator::next
OperatorsIterator_next(err, r) ==
    IF err \/ OperatorsReader_eof(r) THEN None(err, r)
    ELSE Some(OperatorsReader_read(r))

\* next() that decodes without asking whether the reader is at its end.
next_with_offsets_ignoring_eof(err, r) ==
    IF err THEN None(err, r)
    ELSE Some(WithOffset(original_position(r), read_operator(r)))

\* OperatorsIteratorWithOffsets::next
OperatorsIteratorWithOffsets_next(err, r) ==
    IF err \/ OperatorsReader_eof(r) THEN None(err, r)
    ELSE Some(OperatorsReader_read_with_offset(r))

---------------------------------------------------------------------------
(* The visitor's default dispatch: operators.rs lines 382-394.             *)

\* The default dispatch with the Loop arm calling the Block method.
visit_operator_loop_as_block(op) ==
    Call(VisitOf(IF op.op = "Loop" THEN "Block" ELSE op.op), op.args)

\* VisitOperator::visit_operator(op): match op { Operator::$op { args } =>
\* self.$visit(args.clone()) }
VisitOperator_visit_operator(op) == Call(VisitOf(op.op), op.args)

---------------------------------------------------------------------------
(* What a call returned.                                                   *)

NoRet ==
    [call |-> "none", some |-> FALSE, ok |-> TRUE, val |-> NoVal, err |-> NoErr,
     flag |-> FALSE, offset |-> -1]

\* A Result (and, for next(), whether it came as Some).
RetResult(call, some, res) ==
    [call |-> call, some |-> some, ok |-> res.ok, val |-> res.val, err |-> res.err,
     flag |-> FALSE, offset |-> -1]

\* A Result<(Operator, usize)>.
RetWithOffset(call, some, res) ==
    [call |-> call, some |-> some, ok |-> res.ok,
     val |-> IF res.ok THEN res.val.operator ELSE NoVal,
     err |-> res.err, flag |-> FALSE,
     offset |-> IF res.ok THEN res.val.offset ELSE -1]

RetBool(call, b) == [NoRet EXCEPT !.call = call, !.flag = b]

RetUsize(call, n) == [NoRet EXCEPT !.call = call, !.offset = n]

---------------------------------------------------------------------------
(* The reader's operations as steps.                                       *)

\* Bytes of the bodies the reader and iterator specifications decode:
\* nop, end, br, i64.div_u (as an immediate: a continuation byte), and 0xff,
\* which is no opcode.
BodyBytes == {1, 11, 12, 128, 255}

Bodies == SeqsUpTo(BodyBytes, MaxLen)

\* A reader over one of `bodies`, placed at one of `bases`, just constructed.
InitOver(bodies, bases) ==
    /\ \E data \in bodies, base \in bases :
           reader = OperatorsReader_new(BinaryReader(data, base))
    /\ iter = NoIter
    /\ ret = NoRet
    /\ items = <<>>
    /\ cursor = NoReader
    /\ lastOff = -1
    /\ visited = <<>>
    /\ dispatched = <<>>
    /\ tables = <<>>

InitReader == InitOver(Bodies, Bases)

\* A &self call on the reader: only what it returned changes.
Query(r) ==
    /\ iter.kind = "none"
    /\ ret' = r
    /\ UNCHANGED <<reader, iter, items, cursor, lastOff, visited, dispatched, tables>>

Eof == Query(RetBool("eof", OperatorsReader_eof(reader)))

OriginalPosition ==
    Query(RetUsize("original_position", OperatorsReader_original_position(reader)))

IsEndThenEof == Query(RetBool("is_end_then_eof", OperatorsReader_is_end_then_eof(reader)))

\* A call on the reader that returns `res` and leaves the cursor as res.rd.
OnReader(call, res) ==
    /\ iter.kind = "none"
    /\ ret' = RetResult(call, FALSE, res)
    /\ reader' = res.rd
    /\ UNCHANGED <<iter, items, cursor, lastOff, visited, dispatched, tables>>

EnsureEnd == OnReader("ensure_end", OperatorsReader_ensure_end(reader))

Read == OnReader("read", OperatorsReader_read(reader))

\* The caller now holds a second cursor.
TakeCursor(call, c) ==
    /\ iter.kind = "none"
    /\ cursor' = c
    /\ ret' = [NoRet EXCEPT !.call = call]
    /\ UNCHANGED <<reader, iter, items, lastOff, visited, dispatched, tables>>

GetBinaryReader == TakeCursor("get_binary_reader", OperatorsReader_get_binary_reader(reader))

Clone == TakeCursor("clone", OperatorsReader_clone(reader))

\* A read on the second cursor.
OnCursor(call, res) ==
    /\ cursor.live
    /\ ret' = RetResult(call, FALSE, res)
    /\ cursor' = res.rd
    /\ UNCHANGED <<reader, iter, items, lastOff, visited, dispatched, tables>>

CursorRead == OnCursor("cursor_read", read_operator(cursor))

Next ==
    \/ Eof
    \/ OriginalPosition
    \/ IsEndThenEof
    \/ EnsureEnd
    \/ Read
    \/ GetBinaryReader
    \/ Clone
    \/ CursorRead

Spec == InitReader /\ [][Next]_vars

---------------------------------------------------------------------------
(* The iterators' operations as steps.                                     *)

ReadWithOffset ==
    /\ iter.kind = "none"
    /\ \E res \in {OperatorsReader_read_with_offset(reader)} :
           /\ ret' = RetWithOffset("read_with_offset", FALSE, res)
           /\ reader' = res.rd
           /\ lastOff' = IF res.ok THEN res.val.offset ELSE lastOff
    /\ UNCHANGED <<iter, items, cursor, visited, dispatched, tables>>

\* The reader moves into the iterator.
MakeIter(call, it) ==
    /\ iter.kind = "none"
    /\ iter' = it
    /\ ret' = [NoRet EXCEPT !.call = call]
    /\ UNCHANGED <<reader, items, cursor, lastOff, visited, dispatched, tables>>

IntoIter == MakeIter("into_iter", OperatorsReader_into_iter(reader))

IntoIterWithOffsets ==
    MakeIter("into_iter_with_offsets", OperatorsReader_into_iter_with_offsets(reader))

\* next() returned `o` (None or Some), which is `item` to the caller.
Yield(o, item) ==
    /\ iter' = [iter EXCEPT !.err = o.err]
    /\ reader' = o.res.rd
    /\ ret' = item
    /\ items' = IF o.some THEN Append(items, item) ELSE items
    /\ lastOff' = IF o.some /\ item.offset >= 0 THEN item.offset ELSE lastOff
    /\ UNCHANGED <<cursor, visited, dispatched, tables>>

NextOps ==
    /\ iter.kind = "ops"
    /\ \E o \in {OperatorsIterator_next(iter.err, reader)} :
           Yield(o, RetResult("next", o.some, o.res))

NextOffsets ==
    /\ iter.kind = "offsets"
    /\ \E o \in {OperatorsIteratorWithOffsets_next(iter.err, reader)} :
           Yield(o, IF o.some THEN RetWithOffset("next", TRUE, o.res)
                    ELSE RetResult("next", FALSE, o.res))

NextIter ==
    \/ Read
    \/ ReadWithOffset
    \/ IntoIter
    \/ IntoIterWithOffsets
    \/ NextOps
    \/ NextOffsets

SpecIter == InitReader /\ [][NextIter]_vars

\* A reader made into an iterator at once, and the iterator driven by a
\* caller that keeps calling next().
NextDriven ==
    \/ IntoIter
    \/ IntoIterWithOffsets
    \/ NextOps
    \/ NextOffsets

FairSpecIter ==
    InitOver(Bodies, {0}) /\ [][NextDriven]_vars /\ WF_vars(NextOps) /\ WF_vars(NextOffsets)

---------------------------------------------------------------------------
(* The wire format of the instructions in BodyBytes, stated on a whole     *)
(* encoding rather than on a cursor (spec.md section 6, glossary).         *)

\* bs is one variable-length u32: continuation bits on all bytes but the
\* last, at most five bytes, at most 32 bits.
IsVarU32(bs) ==
    /\ Len(bs) \in 1..5
    /\ \A i \in 1..Len(bs) : (bs[i] >= 128) <=> (i < Len(bs))
    /\ Len(bs) = 5 => bs[5] < 16

RECURSIVE VarU32Value(_)
VarU32Value(bs) ==
    IF bs = <<>> THEN 0 ELSE (bs[1] % 128) + 128 * VarU32Value(Tail(bs))

\* bs is exactly one encoded instruction.
IsInstruction(bs) ==
    /\ bs # <<>>
    /\ \/ bs \in {<<1>>, <<11>>, <<128>>}
       \/ bs[1] = 12 /\ IsVarU32(Tail(bs))

\* The instruction bs encodes.
InstructionOf(bs) ==
    CASE bs = <<1>>   -> [op |-> "Nop", args |-> NoArgs]
      [] bs = <<11>>  -> [op |-> "End", args |-> NoArgs]
      [] bs = <<128>> -> [op |-> "I64DivU", args |-> NoArgs]
      [] OTHER        -> [op |-> "Br", args |-> [relative_depth |-> VarU32Value(Tail(bs))]]

\* The ways to cut n bytes into consecutive non-empty pieces, as the
\* sequences of the pieces' lengths.
RECURSIVE Cuts(_)
Cuts(n) ==
    IF n = 0 THEN {<<>>}
    ELSE UNION {{<<k>> \o c : c \in Cuts(n - k)} : k \in 1..n}

RECURSIVE SumTo(_, _)
SumTo(cut, i) == IF i = 0 THEN 0 ELSE cut[i] + SumTo(cut, i - 1)

Piece(bs, cut, i) == SubSeq(bs, SumTo(cut, i - 1) + 1, SumTo(cut, i))

\* The opcode byte each modelled instruction starts with.
OpcodeOf(op) ==
    CASE op = "Nop" -> 1 [] op = "End" -> 11 [] op = "Br" -> 12 [] op = "I64DivU" -> 128
      [] OTHER -> -1

---------------------------------------------------------------------------
(* Claims about the iterators (SpecIter, FairSpecIter).                    *)

YieldedError == \E i \in 1..Len(items) : ~items[i].ok

\* C1: poison on first error.  For both iterators: once next() has yielded an
\* error item, a later next() yields None and no item, whatever bytes remain;
\* so an error item is always the last item yielded.
C1_PoisonOnFirstError ==
    [][ /\ (YieldedError /\ ret'.call = "next") => (~ret'.some /\ items' = items)
        /\ \A i \in 1..Len(items') : ~items'[i].ok => i = Len(items') ]_vars

\* An iterator that has yielded an error returned None with bytes still unread.
C1_Witness ==
    /\ ret.call = "next" /\ ~ret.some
    /\ YieldedError
    /\ ~eof(reader)

\* The bytes the iterator was made over.
Scope == SubSeq(reader.buffer, iter.start + 1, Len(reader.buffer))

\* C3: over a byte range that is a concatenation of validly encoded
\* instructions, the full iterator, once it returns None, has yielded exactly
\* those instructions as Ok items, in order; the reader is then at eof and
\* ensure_end succeeds.
C3_IteratorYieldsTheInstructions ==
    (iter.kind = "ops" /\ ret.call = "next" /\ ~ret.some) =>
        \A cut \in Cuts(Len(Scope)) :
            (\A i \in 1..Len(cut) : IsInstruction(Piece(Scope, cut, i))) =>
                /\ Len(items) = Len(cut)
                /\ \A i \in 1..Len(cut) :
                       /\ items[i].some /\ items[i].ok
                       /\ items[i].val = InstructionOf(Piece(Scope, cut, i))
                /\ OperatorsReader_eof(reader)
                /\ OperatorsReader_ensure_end(reader).ok

\* [0x01, 0x0b] has been iterated to the end: Nop, End, then None.
C3_Witness ==
    /\ iter.kind = "ops" /\ iter.start = 0
    /\ reader.buffer = <<1, 11>>
    /\ ret.call = "next" /\ ~ret.some
    /\ Len(items) = 2
    /\ items[1].val.op = "Nop" /\ items[2].val.op = "End"

\* A step that returned an instruction with its offset.
ReturnsOffset ==
    /\ ret'.ok
    /\ \/ ret'.call = "read_with_offset"
       \/ ret'.call = "next" /\ ret'.some /\ iter.kind = "offsets"

\* C4: read_with_offset and each Ok item of the with-offsets iterator pair the
\* instruction with the absolute offset (base included) at which the reader
\* stood before decoding, which is where the instruction's opcode byte is; and
\* the offsets one reader returns never decrease.
C4_OffsetIsInstructionStart ==
    [][ ReturnsOffset =>
          /\ ret'.offset = reader.original_offset + reader.position
          /\ ret'.offset = OperatorsReader_original_position(reader)
          /\ reader.buffer[ret'.offset - reader.original_offset + 1] = OpcodeOf(ret'.val.op)
          /\ lastOff <= ret'.offset ]_vars

\* The doc test: nop, end in a body at offset 23 come with offsets 23 and 24.
C4_Witness ==
    /\ iter.kind = "offsets"
    /\ reader.buffer = <<1, 11>> /\ reader.original_offset = 23
    /\ Len(items) = 2
    /\ items[1].val.op = "Nop" /\ items[1].offset = 23
    /\ items[2].val.op = "End" /\ items[2].offset = 24

Exhausted == ret.call = "next" /\ ~ret.some

\* C10: the iterators are finite.  With next() called again and again, an
\* iterator, once made, comes to return None and returns None from then on
\* (an iterator stays one, so: in the end, always, an iterator there is has
\* just returned None); next() on a
\* reader at eof returns None (never an end-of-input error); a successful
\* decode moves the cursor forward; a failed one latches the error flag.
C10_IteratorsFinite ==
    /\ <>[](iter.kind # "none" => Exhausted)
    /\ [][ /\ (ret'.call = "next" /\ OperatorsReader_eof(reader)) =>
                  (~ret'.some /\ items' = items)
           /\ (ret'.call = "next" /\ iter.err) => (~ret'.some /\ reader' = reader)
           /\ (ret'.call = "next" /\ ret'.some /\ ret'.ok) =>
                  reader'.position > reader.position
           /\ (ret'.call = "next" /\ ret'.some /\ ~ret'.ok) => iter'.err ]_vars

\* An iterator that ran to the end of a body of two or more instructions.
C10_Witness ==
    /\ Exhausted
    /\ Len(items) >= 2
    /\ ~iter.err
    /\ eof(reader)

---------------------------------------------------------------------------
(* Claims about the reader (Spec).                                         *)

\* C2: ensure_end succeeds iff eof; with bytes left it fails with a
\* trailing-data error at the absolute offset of the first unconsumed byte;
\* either way the cursor stays where it was.
C2_EnsureEnd ==
    [][ ret'.call = "ensure_end" =>
          /\ reader' = reader
          /\ ret'.ok <=> OperatorsReader_eof(reader)
          /\ ~ret'.ok =>
                /\ ret'.err.kind = "trailing_data"
                /\ ret'.err.offset = reader.original_offset + reader.position
                /\ reader.position < Len(reader.buffer) ]_vars

\* [nop, end, 0xff] at offset 23: after nop and end, ensure_end fails at 25.
C2_Witness ==
    /\ ret.call = "ensure_end" /\ ~ret.ok
    /\ reader.buffer = <<1, 11, 255>> /\ reader.original_offset = 23
    /\ reader.position = 2
    /\ ret.err.offset = 25

\* The instructions a cursor will decode from where it stands.
RECURSIVE WillDecode(_)
DecodedThen(res) == IF res.ok THEN <<res.val>> \o WillDecode(res.rd) ELSE <<>>

WillDecode(r) == IF eof(r) THEN <<>> ELSE DecodedThen(read_operator(r))

\* C9: a cursor from get_binary_reader() or clone() starts where the reader
\* stands, over the same bytes; a read on either leaves the other's position
\* and the instructions it will decode as they were; get_binary_reader, eof,
\* original_position and is_end_then_eof do not move the reader.
C9_CursorIndependence ==
    [][ /\ ret'.call \in {"get_binary_reader", "clone"} =>
              /\ cursor'.live
              /\ cursor'.buffer = reader.buffer
              /\ cursor'.position = reader.position
              /\ cursor'.original_offset = reader.original_offset
        /\ ret'.call = "cursor_read" =>
              /\ reader' = reader
              /\ WillDecode(reader') = WillDecode(reader)
        /\ ret'.call = "read" =>
              /\ cursor' = cursor
              /\ cursor.live => WillDecode(cursor') = WillDecode(cursor)
        /\ ret'.call \in {"get_binary_reader", "clone", "eof", "original_position",
                          "is_end_then_eof"} =>
              reader' = reader ]_vars

\* Both cursors have moved, to different places.
C9_Witness ==
    /\ cursor.live
    /\ reader.position > 0 /\ cursor.position > 0
    /\ cursor.position # reader.position

---------------------------------------------------------------------------
(* The two ways to visit a body: SpecVisit.                                *)

\* Bytes of the bodies visited: unreachable (and a count of 0), nop, block,
\* loop, br, br_table, try_table, memory.grow (and the empty block type).
VisitBytes == {0, 1, 2, 3, 12, 14, 31, 64}

\* Two readers over the same body: `reader` is read and its operators are
\* handed to the default dispatch, `cursor` is visited directly.
InitVisit ==
    /\ \E data \in SeqsUpTo(VisitBytes, MaxLen), base \in Bases :
           /\ reader = OperatorsReader_new(BinaryReader(data, base))
           /\ cursor = OperatorsReader_new(BinaryReader(data, base))
    /\ iter = NoIter
    /\ ret = NoRet
    /\ items = <<>>
    /\ lastOff = -1
    /\ visited = <<>>
    /\ dispatched = <<>>
    /\ tables = <<>>

\* A visitor method was called, leaving the reader at position `pos`.
Visit(call, pos) == [call |-> call, pos |-> pos]

\* let op = reader.read()?; visitor.visit_operator(&op)
ReadThenDispatch ==
    /\ \E res \in {OperatorsReader_read(reader)} :
           /\ reader' = res.rd
           /\ ret' = RetResult("read", FALSE, res)
           /\ dispatched' =
                  IF res.ok
                  THEN Append(dispatched,
                              Visit(VisitOperator_visit_operator(res.val), res.rd.position))
                  ELSE dispatched
    /\ UNCHANGED <<iter, items, cursor, lastOff, visited, tables>>

\* reader.visit_operator(&mut visitor)?
VisitDirectly ==
    /\ \E res \in {OperatorsReader_visit_operator(cursor)} :
           /\ cursor' = res.rd
           /\ ret' = RetResult("visit_operator", FALSE, res)
           /\ visited' = IF res.ok THEN Append(visited, Visit(res.val, res.rd.position))
                         ELSE visited
    /\ UNCHANGED <<reader, iter, items, lastOff, dispatched, tables>>

NextVisit ==
    \/ ReadThenDispatch
    \/ VisitDirectly

SpecVisit == InitVisit /\ [][NextVisit]_vars

Min(a, b) == IF a <= b THEN a ELSE b

\* C6: visitor/enum equivalence.  Over the same bytes, the i-th visitor call
\* made by read() plus the default dispatch is the i-th call made by
\* OperatorsReader::visit_operator: the same method with the same arguments,
\* leaving the reader at the same position.
C6_VisitorEnumEquivalence ==
    \A i \in 1..Min(Len(visited), Len(dispatched)) : visited[i] = dispatched[i]

\* Both paths have visited a loop and the instruction after it.
C6_Witness ==
    /\ Len(visited) >= 2 /\ Len(dispatched) >= 2
    /\ visited[1].call.visit = "visit_loop"
    /\ dispatched[1].call.visit = "visit_loop"

---------------------------------------------------------------------------
(* The sub-table decoders on a cursor: SpecTables.                         *)

\* Bytes of the inputs: the Catch tags 0..3 (tags, labels, counts and
\* function-type block types as well), 4 and 7, which are no tag, and a
\* continuation byte.
TableBytes == {0, 1, 2, 3, 4, 7, 128}

InitTables == InitOver(SeqsUpTo(TableBytes, MaxTableLen), Bases)

\* reader.read::<T>() for each FromReader impl of the file.
ReadTryTable == OnReader("TryTable", TryTable_from_reader(reader))

ReadResumeTable == OnReader("ResumeTable", ResumeTable_from_reader(reader))

ReadCatch == OnReader("Catch", Catch_from_reader(reader))

ReadHandle == OnReader("Handle", Handle_from_reader(reader))

NextTables ==
    \/ ReadTryTable
    \/ ReadResumeTable
    \/ ReadCatch
    \/ ReadHandle

SpecTables == InitTables /\ [][NextTables]_vars

\* The call failed on a count over its maximum, with the cursor `behind` the
\* count and nothing returned.
SizeLimitError(desc, countAt, behind) ==
    /\ ~ret'.ok
    /\ ret'.val = NoVal
    /\ ret'.err.kind = "size_limit" /\ ret'.err.desc = desc
    /\ ret'.err.offset = original_position(countAt)
    /\ reader' = behind

\* The count a cursor stands at is over `limit`.
CountOver(res, limit) == res.ok /\ res.val > limit

\* C5: a TryTable whose declared catch count exceeds MAX_WASM_CATCHES, or a
\* ResumeTable whose declared handler count exceeds MAX_WASM_HANDLERS, fails
\* with a size-limit error, the cursor left just behind the count: no Catch or
\* Handle byte is read and no table is returned.
C5_SizeLimitBeforeEntries ==
    [][ /\ (/\ ret'.call = "TryTable"
            /\ read_block_type(reader).ok
            /\ CountOver(read_var_u32(read_block_type(reader).rd), MAX_WASM_CATCHES)) =>
               SizeLimitError("catches", read_block_type(reader).rd,
                              read_var_u32(read_block_type(reader).rd).rd)
        /\ (/\ ret'.call = "ResumeTable"
            /\ CountOver(read_var_u32(reader), MAX_WASM_HANDLERS)) =>
               SizeLimitError("resume table", reader, read_var_u32(reader).rd) ]_vars

\* A TryTable failed on its count with entry bytes still unread behind it.
C5_Witness ==
    /\ ret.call = "TryTable"
    /\ ret.err.kind = "size_limit"
    /\ ~eof(reader)

CatchVariant(b) ==
    CASE b = 0 -> "One" [] b = 1 -> "OneRef" [] b = 2 -> "All" [] b = 3 -> "AllRef"

HandleVariant(b) == CASE b = 0 -> "OnLabel" [] b = 1 -> "OnSwitch"

\* The byte the reader stands at.
LeadingByte == reader.buffer[reader.position + 1]

\* The call failed on its leading byte, naming it, the context and its offset.
LeadingByteError(desc) ==
    /\ ~ret'.ok
    /\ ret'.val = NoVal
    /\ ret'.err = Error("invalid_leading_byte", reader.original_offset + reader.position,
                        LeadingByte, desc)

\* C7: a Catch is decoded from the leading bytes 0x00..0x03 and a Handle from
\* 0x00..0x01, each byte giving its variant; any other leading byte fails with
\* an invalid-leading-byte error naming the byte, the context ("catch", "on
\* clause") and the byte's offset, and gives no variant.
C7_ClosedLeadingBytes ==
    [][ /\ (ret'.call = "Catch" /\ ~eof(reader)) =>
              IF LeadingByte \in 0..3
              THEN /\ ret'.err.kind # "invalid_leading_byte"
                   /\ ret'.ok => ret'.val.catch = CatchVariant(LeadingByte)
              ELSE LeadingByteError("catch")
        /\ (ret'.call = "Handle" /\ ~eof(reader)) =>
              IF LeadingByte \in 0..1
              THEN /\ ret'.err.kind # "invalid_leading_byte"
                   /\ ret'.ok => ret'.val.handle = HandleVariant(LeadingByte)
              ELSE LeadingByteError("on clause") ]_vars

\* A Catch whose leading byte is 0x07 was refused, at a byte past the first.
C7_Witness ==
    /\ ret.call = "Catch"
    /\ ret.err.kind = "invalid_leading_byte"
    /\ ret.err.byte = 7 /\ ret.err.desc = "catch"
    /\ reader.position > 1
    /\ ret.err.offset = reader.original_offset + reader.position - 1

---------------------------------------------------------------------------
(* Two branch tables compared: SpecBrTable.                                *)

\* Bytes of the br_table immediates: counts, labels, a continuation byte.
BrTableBytes == {0, 1, 2, 128}

\* The BrTable values read() gives for `br_table` followed by such bytes.
BrTables ==
    {res.val.args.targets :
        res \in {r \in {OperatorsReader_read(BinaryReader(<<14>> \o imm, base)) :
                           imm \in SeqsUpTo(BrTableBytes, MaxLen), base \in Bases} : r.ok}}

InitBrTable ==
    /\ tables \in BrTables \X BrTables
    /\ reader = NoReader
    /\ iter = NoIter
    /\ ret = NoRet
    /\ items = <<>>
    /\ cursor = NoReader
    /\ lastOff = -1
    /\ visited = <<>>
    /\ dispatched = <<>>

\* tables[1] == tables[2]
TablesEq ==
    /\ ret' = RetBool("eq", BrTable_eq(tables[1], tables[2]))
    /\ UNCHANGED <<reader, iter, items, cursor, lastOff, visited, dispatched, tables>>

\* tables[1].targets().collect::<Result<Vec<_>>>()
TablesTargets ==
    /\ \E res \in {BrTable_targets(tables[1])} :
           ret' = [NoRet EXCEPT !.call = "targets", !.ok = res.ok,
                                !.val = [labels |-> IF res.ok THEN res.val ELSE <<>>],
                                !.err = res.err]
    /\ UNCHANGED <<reader, iter, items, cursor, lastOff, visited, dispatched, tables>>

NextBrTable ==
    \/ TablesEq
    \/ TablesTargets

SpecBrTable == InitBrTable /\ [][NextBrTable]_vars

\* The i-th byte a table's retained cursor has left.
RemainingByte(t, i) == t.reader.buffer[t.reader.position + i]

RemainingLen(t) == Len(t.reader.buffer) - t.reader.position

\* C8: a == b iff the counts are equal, the default labels are equal and the
\* bytes the retained cursors have left are equal byte for byte; the offsets
\* of the cursors do not matter.
C8_BrTableEqStructural ==
    ret.call = "eq" =>
        (ret.flag <=>
            /\ tables[1].cnt = tables[2].cnt
            /\ tables[1].default = tables[2].default
            /\ RemainingLen(tables[1]) = RemainingLen(tables[2])
            /\ \A i \in 1..RemainingLen(tables[1]) :
                   RemainingByte(tables[1], i) = RemainingByte(tables[2], i))

\* Two tables with labels, at different offsets, compared equal.
C8_Witness ==
    /\ ret.call = "eq" /\ ret.flag
    /\ tables[1].cnt >= 1
    /\ tables[1].reader.original_offset # tables[2].reader.original_offset

=============================================================================
